---- MODULE Spec2Model ----
(***************************************************************************)
(* Model of app2.py: one run of main() -- upload, load_data, the widgets,  *)
(* process_data, plot_data -- with the pandas/pyplot operations the script *)
(* uses modelled by what they do on small tables.                          *)
(*                                                                         *)
(* Column names: "ym" is the year-month column, "item" the item column,    *)
(* "year" / "month" the two derived columns, "ym_label" the rebuilt x-axis *)
(* label; "C" and "D" are the user's value columns.  A text is a sequence  *)
(* of one-character strings.                                               *)
(***************************************************************************)
EXTENDS Integers, Sequences, FiniteSets, TLC

\* Largest number of data rows of an uploaded sheet.
MaxRows == 2

None == "None"

Min(a, b) == IF a <= b THEN a ELSE b
Max(a, b) == IF a >= b THEN a ELSE b

(***************************************************************************)
(* Texts.                                                                  *)
(***************************************************************************)
\* The characters that occur, in code-point order.
Alphabet == <<".", "0", "1", "2", "3", "4", "5", "6", "7", "8", "9", "A", "B", "a", "n">>

DigitChars == <<"0", "1", "2", "3", "4", "5", "6", "7", "8", "9">>

Ord(c) == CHOOSE i \in 1..Len(Alphabet) : Alphabet[i] = c

IsDigit(c) == \E i \in 1..10 : DigitChars[i] = c

DigitValue(c) == (CHOOSE i \in 1..10 : DigitChars[i] = c) - 1

\* str(n) of a non-negative int.
RECURSIVE IntToStr(_)
IntToStr(n) ==
    IF n < 10 THEN <<DigitChars[n + 1]>>
    ELSE IntToStr(n \div 10) \o <<DigitChars[(n % 10) + 1]>>

\* Python's s < t on str: lexicographic by code point, a prefix first.
StrLess(s, t) ==
    LET n == Min(Len(s), Len(t))
        diff == {i \in 1..n : s[i] # t[i]}
    IN  IF diff = {} THEN Len(s) < Len(t)
        ELSE LET i == CHOOSE j \in diff : \A k \in diff : j <= k
             IN  Ord(s[i]) < Ord(t[i])

\* s[:k]
StrHead(s, k) == SubSeq(s, 1, Min(k, Len(s)))

\* s[k:]
StrTail(s, k) == SubSeq(s, k + 1, Len(s))

\* Whether int(s) succeeds, for texts over Alphabet: a non-empty digit string.
IntParses(s) == Len(s) > 0 /\ \A i \in 1..Len(s) : IsDigit(s[i])

\* int(s) of a digit string.
RECURSIVE StrToInt(_)
StrToInt(s) ==
    IF Len(s) = 0 THEN 0
    ELSE 10 * StrToInt(SubSeq(s, 1, Len(s) - 1)) + DigitValue(s[Len(s)])

\* s.zfill(width) of an unsigned text.
RECURSIVE zfill(_, _)
zfill(s, width) == IF Len(s) >= width THEN s ELSE zfill(<<"0">> \o s, width)

(***************************************************************************)
(* Cells of the year-month column.  In the sheet: a whole number, a text   *)
(* made of the digits of n, or an empty cell.  As read_excel delivers      *)
(* them: an int, a float with an integral value, a str, or NaN.            *)
(***************************************************************************)
NumCell(n) == [kind |-> "num", n |-> n]
TextCell(n) == [kind |-> "text", n |-> n]
EmptyCell == [kind |-> "empty", n |-> 0]

IntCell(n) == [kind |-> "int", n |-> n]
FloatCell(n) == [kind |-> "float", n |-> n]
StrCell(n) == [kind |-> "str", n |-> n]
NaNCell == [kind |-> "nan", n |-> 0]

\* The dtype read_excel infers for a column of sheet cells.
ColumnDtype(cells) ==
    IF \E i \in 1..Len(cells) : cells[i].kind = "text" THEN "object"
    ELSE IF \E i \in 1..Len(cells) : cells[i].kind = "empty" THEN "float64"
    ELSE "int64"

\* A sheet cell as it arrives in a column of that dtype.
ReadCell(cell, dtype) ==
    CASE cell.kind = "text" -> StrCell(cell.n)
      [] cell.kind = "empty" -> NaNCell
      [] OTHER -> IF dtype = "float64" THEN FloatCell(cell.n) ELSE IntCell(cell.n)

\* Series.astype(str) on one cell.
astype_str(cell) ==
    CASE cell.kind = "int" -> IntToStr(cell.n)
      [] cell.kind = "str" -> IntToStr(cell.n)
      [] cell.kind = "float" -> IntToStr(cell.n) \o <<".", "0">>
      [] OTHER -> <<"n", "a", "n">>

(***************************************************************************)
(* DataFrames: the column labels in order and the rows in order, each row  *)
(* a record of its cells together with its index label "idx".              *)
(***************************************************************************)
Range(s) == {s[i] : i \in 1..Len(s)}

InSeq(x, s) == \E i \in 1..Len(s) : s[i] = x

\* Series.unique(): the distinct values in order of first appearance.
RECURSIVE unique(_)
unique(s) ==
    IF Len(s) = 0 THEN <<>>
    ELSE LET front == unique(SubSeq(s, 1, Len(s) - 1))
         IN  IF InSeq(s[Len(s)], front) THEN front ELSE Append(front, s[Len(s)])

Column(df, c) == [i \in 1..Len(df.rows) |-> df.rows[i][c]]

\* row[c] = v, adding the column when it is new.
SetCell(r, c, v) == [k \in (DOMAIN r) \cup {c} |-> IF k = c THEN v ELSE r[k]]

\* df[df[c] == v]
WhereEq(df, c, v) == [df EXCEPT !.rows = SelectSeq(df.rows, LAMBDA r : r[c] = v)]

\* Variant: the isin mask is not applied.
isin_filter_KeepAll(data, selected_items) == data

\* data[data['item'].isin(selected_items)].copy()
isin_filter(data, selected_items) ==
    [data EXCEPT !.rows = SelectSeq(data.rows, LAMBDA r : InSeq(r.item, selected_items))]

\* filtered_data['ym'] = filtered_data['ym'].astype(str)
ym_as_str(df) ==
    [df EXCEPT !.rows = [i \in 1..Len(df.rows) |->
                            SetCell(df.rows[i], "ym", astype_str(df.rows[i].ym))]]

\* Variant: the year cut after two characters.
YearPart_TwoChars(ym) == StrHead(ym, 2)

\* filtered_data['ym'].str[:3]
YearPart(ym) == StrHead(ym, 3)

\* Variant: the month taken as the last two characters.
MonthPart_LastTwo(ym) == StrTail(ym, Max(Len(ym) - 2, 0))

\* filtered_data['ym'].str[3:]
MonthPart(ym) == StrTail(ym, 3)

\* .astype(int) raises when one element is not an integer literal.
MonthRaises(df) == \E i \in 1..Len(df.rows) : ~IntParses(MonthPart(df.rows[i].ym))

\* The two assignments of the derived columns.
AddYearMonth(df) ==
    [columns |-> df.columns \o <<"year", "month">>,
     rows |-> [i \in 1..Len(df.rows) |->
                 SetCell(SetCell(df.rows[i], "year", YearPart(df.rows[i].ym)),
                         "month", StrToInt(MonthPart(df.rows[i].ym)))]]

\* The columns process_data keeps.
KeptColumns(selected_column) == <<"item", "year", "month", selected_column>>

\* df[cols]
SelectColumns(df, cols) ==
    [columns |-> cols,
     rows |-> [i \in 1..Len(df.rows) |->
                 [k \in {"idx"} \cup Range(cols) |-> df.rows[i][k]]]]

\* Row a sorts strictly before row b by ['item', 'year', 'month'].
KeyLess(a, b) ==
    \/ StrLess(a.item, b.item)
    \/ /\ a.item = b.item
       /\ \/ StrLess(a.year, b.year)
          \/ a.year = b.year /\ a.month < b.month

\* r put behind the last row of the sorted s that does not sort after it.
InsertSorted(s, r) ==
    LET le == {i \in 1..Len(s) : ~KeyLess(r, s[i])}
        p == IF le = {} THEN 0 ELSE CHOOSE i \in le : \A j \in le : j <= i
    IN  SubSeq(s, 1, p) \o <<r>> \o SubSeq(s, p + 1, Len(s))

RECURSIVE SortRows(_)
SortRows(rows) ==
    IF Len(rows) = 0 THEN <<>>
    ELSE InsertSorted(SortRows(SubSeq(rows, 1, Len(rows) - 1)), rows[Len(rows)])

\* Variant: the sorted frame is not assigned back.
sort_values_NotAssigned(df) == df

\* df.sort_values(['item', 'year', 'month']) (a stable multi-key sort)
sort_values(df) == [df EXCEPT !.rows = SortRows(df.rows)]

NoFrame == [columns |-> <<>>, rows |-> <<>>]

\* Variant: the year-month column is parsed before the rows are filtered.
process_data_ParseFirst(data, selected_items, selected_column) ==
    LET parsed == ym_as_str(data)
    IN  IF MonthRaises(parsed)
        THEN [raised |-> TRUE, df |-> NoFrame]
        ELSE [raised |-> FALSE,
              df |-> sort_values(SelectColumns(
                         isin_filter(AddYearMonth(parsed), selected_items),
                         KeptColumns(selected_column)))]

\* process_data: the returned frame, or raised = TRUE when astype(int) raises.
process_data(data, selected_items, selected_column) ==
    LET filtered == ym_as_str(isin_filter(data, selected_items))
    IN  IF MonthRaises(filtered)
        THEN [raised |-> TRUE, df |-> NoFrame]
        ELSE [raised |-> FALSE,
              df |-> sort_values(SelectColumns(AddYearMonth(filtered),
                                               KeptColumns(selected_column)))]

\* load_data: the first sheet as pd.read_excel reads it.
load_data(uploaded_file) ==
    LET ymcol == uploaded_file.columns[1]
        dtype == ColumnDtype(Column(uploaded_file, ymcol))
    IN  [uploaded_file EXCEPT !.rows =
            [i \in 1..Len(uploaded_file.rows) |->
                SetCell(uploaded_file.rows[i], ymcol,
                        ReadCell(uploaded_file.rows[i][ymcol], dtype))]]

(***************************************************************************)
(* The inputs: the sheets a user may upload.                               *)
(***************************************************************************)
Items == {<<"A">>, <<"B">>}

\* Year-month cells of a sheet: YYYMM of one year (months 2 and 10) as
\* numbers, one of them also typed as text, a 4-digit, a 6-digit and a
\* 3-digit code, and an empty cell.
Cells == {NumCell(11402), NumCell(11410), NumCell(9912), NumCell(201005),
          NumCell(114), TextCell(11402), EmptyCell}

\* The header rows: no value column; the value columns C and D; and the
\* second header written as the page's instructions word it.
Layouts == {<<"ym", "item">>, <<"ym", "item", "C", "D">>,
            <<"ym", "analysis_item", "C", "D">>}

\* Row i (index label i - 1) of a sheet; its values are 10 i and 10 i + 1.
SheetRow(i, cols, item, ym) ==
    [k \in {"idx"} \cup Range(cols) |->
        CASE k = "idx" -> i - 1
          [] k = cols[1] -> ym
          [] k = cols[2] -> item
          [] k = "C" -> 10 * i
          [] OTHER -> 10 * i + 1]

Sheets ==
    UNION {{[columns |-> cols,
             rows |-> [i \in 1..n |-> SheetRow(i, cols, f[i][1], f[i][2])]]
            : f \in [1..n -> Items \X Cells], cols \in Layouts}
           : n \in 0..MaxRows}

\* The lists a multiselect over `options` can return: no repeats, any order.
RECURSIVE Selections(_)
Selections(options) ==
    {<<>>} \cup UNION {{<<x>> \o s : s \in Selections(options \ {x})} : x \in options}

(***************************************************************************)
(* plot_data: what each figure is given to draw.                           *)
(***************************************************************************)
\* label=f"{year} 年" and label=item / a hue level.
YearLabel(year) == [kind |-> "year", text |-> year]
ItemLabel(item) == [kind |-> "item", text |-> item]

\* Variant: the month is not padded.
ym_label_NoPad(r) == r.year \o IntToStr(r.month)

\* df['ym_label'] = df['year'] + df['month'].astype(str).str.zfill(2)
ym_label(r) == r.year \o zfill(IntToStr(r.month), 2)

AddYmLabel(df) ==
    [columns |-> Append(df.columns, "ym_label"),
     rows |-> [i \in 1..Len(df.rows) |->
                 SetCell(df.rows[i], "ym_label", ym_label(df.rows[i]))]]

\* pd.concat of two frames with the same columns.
concat(a, b) == IF Len(a.columns) = 0 THEN b ELSE [a EXCEPT !.rows = a.rows \o b.rows]

\* One sns.lineplot(..., label=f"{year} 年") per year of df, x='month'.
YearSeries(df, selected_column) ==
    LET years == unique(Column(df, "year"))
    IN  [i \in 1..Len(years) |->
            [label |-> YearLabel(years[i]), x |-> "month", y |-> selected_column,
             rows |-> WhereEq(df, "year", years[i]).rows]]

\* The loop building full_date_data over selected_items[1..n].
RECURSIVE full_date_data(_, _, _)
full_date_data(data, selected_items, n) ==
    IF n = 0 THEN NoFrame
    ELSE concat(full_date_data(data, selected_items, n - 1),
                AddYmLabel(WhereEq(data, "item", selected_items[n])))

\* sns.lineplot(x='ym_label', hue='item', data=df): one line per hue level.
HueSeries(df, selected_column) ==
    LET levels == unique(Column(df, "item"))
    IN  [i \in 1..Len(levels) |->
            [label |-> ItemLabel(levels[i]), x |-> "ym_label", y |-> selected_column,
             rows |-> WhereEq(df, "item", levels[i]).rows]]

\* The legend plt.legend() builds: the labels of the lines drawn.
Legend(series) == [i \in 1..Len(series) |-> series[i].label]

\* The figure of the combine_plots branch.
CombinedFigure(data, selected_items, selected_column, separate_by_year) ==
    LET series == IF separate_by_year
                  THEN YearSeries(data, selected_column)
                  ELSE HueSeries(full_date_data(data, selected_items, Len(selected_items)),
                                 selected_column)
    IN  [title |-> <<>>,
         xlabel |-> IF separate_by_year THEN "month" ELSE "ym",
         series |-> series,
         legend |-> Legend(series)]

\* Variant: the figure of an item is fed the whole frame.
ItemFigure_AllRows(data, item, selected_column, separate_by_year) ==
    LET series == IF separate_by_year
                  THEN YearSeries(data, selected_column)
                  ELSE <<[label |-> ItemLabel(item), x |-> "ym_label",
                          y |-> selected_column, rows |-> AddYmLabel(data).rows]>>
    IN  [title |-> item,
         xlabel |-> IF separate_by_year THEN "month" ELSE "ym",
         series |-> series,
         legend |-> Legend(series)]

\* The figure of one item in the other branch.
ItemFigure(data, item, selected_column, separate_by_year) ==
    LET item_data == WhereEq(data, "item", item)
        series == IF separate_by_year
                  THEN YearSeries(item_data, selected_column)
                  ELSE <<[label |-> ItemLabel(item), x |-> "ym_label",
                          y |-> selected_column, rows |-> AddYmLabel(item_data).rows]>>
    IN  [title |-> item,
         xlabel |-> IF separate_by_year THEN "month" ELSE "ym",
         series |-> series,
         legend |-> Legend(series)]

BlankFigure == [title |-> <<>>, xlabel |-> "", series |-> <<>>, legend |-> <<>>]

(***************************************************************************)
(* One run of main().                                                      *)
(***************************************************************************)
VARIABLES
    pc,               \* where main() stands
    uploaded_file,    \* <<>> for None, <<sheet>> for an uploaded file
    data,
    selected_items,
    selected_column,
    separate_by_year,
    combine_plots,
    filtered_data,
    item_i,           \* position of plot_data's loop over selected_items
    fig_count,        \* figures created by plt.figure so far
    open_figs,        \* numbers of the pyplot figures that are open
    drawn,            \* what each created figure holds
    rendered,         \* the figures st.pyplot has shown, in order
    written,          \* the guidance messages written with st.write
    calls             \* load_data / process_data / plot_data, in call order

vars == <<pc, uploaded_file, data, selected_items, selected_column, separate_by_year,
          combine_plots, filtered_data, item_i, fig_count, open_figs, drawn,
          rendered, written, calls>>

widgets == <<selected_items, selected_column, separate_by_year, combine_plots>>
pyplot == <<item_i, fig_count, open_figs, drawn, rendered>>

Init ==
    /\ pc = "file_uploader"
    /\ uploaded_file = <<>>
    /\ data = NoFrame
    /\ selected_items = <<>>
    /\ selected_column = None
    /\ separate_by_year = FALSE
    /\ combine_plots = TRUE
    /\ filtered_data = NoFrame
    /\ item_i = 0
    /\ fig_count = 0
    /\ open_figs = {}
    /\ drawn = <<>>
    /\ rendered = <<>>
    /\ written = <<>>
    /\ calls = <<>>

\* st.file_uploader: nothing uploaded, or some sheet.
FileUploader ==
    /\ pc = "file_uploader"
    /\ \E f \in {<<>>} \cup {<<sh>> : sh \in Sheets} : uploaded_file' = f
    /\ pc' = "if_uploaded"
    /\ UNCHANGED <<data, widgets, filtered_data, pyplot, written, calls>>

\* else-branch of `if uploaded_file is not None`.
AskForFile ==
    /\ pc = "if_uploaded"
    /\ uploaded_file = <<>>
    /\ written' = Append(written, "upload_file")
    /\ pc' = "done"
    /\ UNCHANGED <<uploaded_file, data, widgets, filtered_data, pyplot, calls>>

LoadData ==
    /\ pc = "if_uploaded"
    /\ uploaded_file # <<>>
    /\ data' = load_data(uploaded_file[1])
    /\ calls' = Append(calls, "load_data")
    /\ pc' = "widgets"
    /\ UNCHANGED <<uploaded_file, widgets, filtered_data, pyplot, written>>

\* data['item'].unique().tolist()
item_options(df) == unique(Column(df, "item"))

\* data.columns[2:].tolist()
column_options(df) == SubSeq(df.columns, 3, Len(df.columns))

\* data['item'] on a sheet without that header: KeyError ends the run.
ItemKeyError ==
    /\ pc = "widgets"
    /\ ~InSeq("item", data.columns)
    /\ pc' = "raised"
    /\ UNCHANGED <<uploaded_file, data, widgets, filtered_data, pyplot, written, calls>>

\* The multiselect, the selectbox and the two checkboxes.
Widgets ==
    /\ pc = "widgets"
    /\ InSeq("item", data.columns)
    /\ selected_items' \in Selections(Range(item_options(data)))
    /\ selected_column' \in
         IF Len(column_options(data)) = 0 THEN {None} ELSE Range(column_options(data))
    /\ separate_by_year' \in BOOLEAN
    /\ combine_plots' \in BOOLEAN
    /\ pc' = "if_selected"
    /\ UNCHANGED <<uploaded_file, data, filtered_data, pyplot, written, calls>>

\* Variant: only the column is tested.
Selected_ColumnOnly == selected_column # None

\* `selected_items and selected_column`
Selected == Len(selected_items) > 0 /\ selected_column # None

AskForSelection ==
    /\ pc = "if_selected"
    /\ ~Selected
    /\ written' = Append(written, "select_item_and_column")
    /\ pc' = "done"
    /\ UNCHANGED <<uploaded_file, data, widgets, filtered_data, pyplot, calls>>

\* The call of process_data; an exception ends the run.
ProcessData ==
    /\ pc = "if_selected"
    /\ Selected
    /\ calls' = Append(calls, "process_data")
    /\ LET res == process_data(data, selected_items, selected_column)
       IN  /\ filtered_data' = res.df
           /\ pc' = IF res.raised THEN "raised" ELSE "if_empty"
    /\ UNCHANGED <<uploaded_file, data, widgets, pyplot, written>>

\* `if not filtered_data.empty`: the call of plot_data, or the message.
PlotOrReport ==
    /\ pc = "if_empty"
    /\ IF Len(filtered_data.rows) > 0
       THEN /\ calls' = Append(calls, "plot_data")
            /\ item_i' = 1
            /\ pc' = "plt_figure"
            /\ UNCHANGED written
       ELSE /\ written' = Append(written, "no_matching_data")
            /\ pc' = "done"
            /\ UNCHANGED <<calls, item_i>>
    /\ UNCHANGED <<uploaded_file, data, widgets, filtered_data, fig_count, open_figs,
                   drawn, rendered>>

\* The figure pyplot draws on: the one created last among the open ones.
CurrentFigure == CHOOSE n \in open_figs : \A m \in open_figs : m <= n

\* plt.figure(figsize=(12, 6))
PltFigure ==
    /\ pc = "plt_figure"
    /\ fig_count' = fig_count + 1
    /\ open_figs' = open_figs \cup {fig_count + 1}
    /\ drawn' = Append(drawn, BlankFigure)
    /\ pc' = "lineplot"
    /\ UNCHANGED <<uploaded_file, data, widgets, filtered_data, item_i, rendered,
                   written, calls>>

\* The lineplot calls, the labels and the legend of the current figure.
Lineplot ==
    /\ pc = "lineplot"
    /\ drawn' = [drawn EXCEPT ![CurrentFigure] =
                   IF combine_plots
                   THEN CombinedFigure(filtered_data, selected_items, selected_column,
                                       separate_by_year)
                   ELSE ItemFigure(filtered_data, selected_items[item_i],
                                   selected_column, separate_by_year)]
    /\ pc' = "st_pyplot"
    /\ UNCHANGED <<uploaded_file, data, widgets, filtered_data, item_i, fig_count,
                   open_figs, rendered, written, calls>>

\* st.pyplot(plt)
StPyplot ==
    /\ pc = "st_pyplot"
    /\ rendered' = Append(rendered, [num |-> CurrentFigure, fig |-> drawn[CurrentFigure]])
    /\ pc' = "plt_close"
    /\ UNCHANGED <<uploaded_file, data, widgets, filtered_data, item_i, fig_count,
                   open_figs, drawn, written, calls>>

\* Variant: the figure is left open.
PltClose_Leak ==
    /\ pc = "plt_close"
    /\ IF ~combine_plots /\ item_i < Len(selected_items)
       THEN item_i' = item_i + 1 /\ pc' = "plt_figure"
       ELSE item_i' = item_i /\ pc' = "done"
    /\ UNCHANGED <<uploaded_file, data, widgets, filtered_data, fig_count, open_figs,
                   drawn, rendered, written, calls>>

\* plt.close(), then the next item's figure or the return of plot_data.
PltClose ==
    /\ pc = "plt_close"
    /\ open_figs' = open_figs \ {CurrentFigure}
    /\ IF ~combine_plots /\ item_i < Len(selected_items)
       THEN item_i' = item_i + 1 /\ pc' = "plt_figure"
       ELSE item_i' = item_i /\ pc' = "done"
    /\ UNCHANGED <<uploaded_file, data, widgets, filtered_data, fig_count, drawn,
                   rendered, written, calls>>

Next ==
    \/ FileUploader
    \/ AskForFile
    \/ LoadData
    \/ ItemKeyError
    \/ Widgets
    \/ AskForSelection
    \/ ProcessData
    \/ PlotOrReport
    \/ PltFigure
    \/ Lineplot
    \/ StPyplot
    \/ PltClose

Spec == Init /\ [][Next]_vars

(***************************************************************************)
(* Properties.                                                             *)
(***************************************************************************)
Called(f) == InSeq(f, calls)

\* process_data has returned a frame (it is held in filtered_data).
Returned == Called("process_data") /\ pc # "raised"

Ended == pc \in {"done", "raised"}

\* The row of the loaded sheet a result row came from (by index label).
SourceRow(r) == data.rows[r.idx + 1]

Result == filtered_data.rows

\* ---- C1 ----
\* C1: for every row of the result whose year-month cell is a 5-digit code
\* YYYMM with MM in 01..12, the year field is the text YYY and the month
\* field the integer MM.
C1_ParsesYYYMM ==
    Returned =>
        \A i \in 1..Len(Result) :
            LET n == SourceRow(Result[i]).ym.n
            IN  (n >= 10000 /\ n <= 99999 /\ (n % 100) \in 1..12) =>
                    /\ Result[i].year = IntToStr(n \div 100)
                    /\ Result[i].month = n % 100

C1_Witness ==
    /\ Returned
    /\ \E i \in 1..Len(Result) :
          /\ SourceRow(Result[i]).ym = IntCell(11410)
          /\ Result[i].month = 10

\* ---- C2 ----
\* 10 to the power k.
RECURSIVE Pow10(_)
Pow10(k) == IF k = 0 THEN 1 ELSE 10 * Pow10(k - 1)

\* The number a code of 4 or more digits leaves after its first three digits.
AfterThird(n) == Pow10(Len(IntToStr(n)) - 3)

\* C2 as stated: for a code of any supported length (4, 5 or 6 digits) the month field
\* is the integer value of the last two digits and the year field is all the
\* digits before them.
C2_FlexibleLength ==
    Returned =>
        \A i \in 1..Len(Result) :
            LET n == SourceRow(Result[i]).ym.n
            IN  (n >= 1000 /\ n <= 999999) =>
                    /\ Result[i].year = IntToStr(n \div 100)
                    /\ Result[i].month = n % 100

\* C2 amended: whatever the length of the code (4, 5 or 6 digits), the year
\* field is its first three digits and the month field the integer value of
\* all digits after the third; the month is the value of the last two digits
\* and the year all digits before them for the 5-digit codes YYYMM.
C2_FirstThreeAndRest ==
    Returned =>
        \A i \in 1..Len(Result) :
            LET n == SourceRow(Result[i]).ym.n
            IN  (n >= 1000 /\ n <= 999999) =>
                    /\ Result[i].year = IntToStr(n \div AfterThird(n))
                    /\ Result[i].month = n % AfterThird(n)
                    /\ (n >= 10000 /\ n <= 99999) =>
                          /\ Result[i].year = IntToStr(n \div 100)
                          /\ Result[i].month = n % 100

C2_Witness ==
    /\ Returned
    /\ \E i, j \in 1..Len(Result) :
          /\ SourceRow(Result[i]).ym = IntCell(9912)
          /\ Result[i].year = <<"9", "9", "1">>
          /\ Result[i].month = 2
          /\ SourceRow(Result[j]).ym = IntCell(201005)
          /\ Result[j].year = <<"2", "0", "1">>
          /\ Result[j].month = 5

\* ---- C3 ----
\* C3: the result holds exactly the input rows whose item is selected, each
\* once, under exactly the columns item, year, month and the selected value
\* column, with the item and the selected value of the input row.
C3_FilterAndSelect ==
    Returned =>
        /\ filtered_data.columns = <<"item", "year", "month", selected_column>>
        /\ \A i \in 1..Len(Result) :
              /\ DOMAIN Result[i] = {"idx", "item", "year", "month", selected_column}
              /\ Result[i].item = SourceRow(Result[i]).item
              /\ Result[i][selected_column] = SourceRow(Result[i])[selected_column]
        /\ \A i, j \in 1..Len(Result) : Result[i].idx = Result[j].idx => i = j
        /\ {Result[i].idx : i \in 1..Len(Result)}
             = {data.rows[k].idx : k \in {m \in 1..Len(data.rows) :
                                            InSeq(data.rows[m].item, selected_items)}}

C3_Witness ==
    /\ Returned
    /\ Len(Result) > 0
    /\ selected_column = "D"
    /\ \E k \in 1..Len(data.rows) : ~InSeq(data.rows[k].item, selected_items)

\* plot_data has returned.
Plotted == Called("plot_data") /\ pc = "done"

\* The rows a figure was fed, over all its series.
FedRows(fig) == UNION {Range(fig.series[i].rows) : i \in 1..Len(fig.series)}

\* A fed row without the label column added for plotting.
Reshaped(r) == [k \in (DOMAIN r) \ {"ym_label"} |-> r[k]]

\* The rows of the reshaped data of one item.
RowsOfItem(item) == {r \in Range(Result) : r.item = item}

\* ---- C4 ----
\* C4: when plotting split by year, in the combined and in the per-item mode,
\* every (item, year) pair of the reshaped data is drawn as its own series,
\* fed exactly the rows of that item and year, with its own legend entry.
C4_SeriesPerItemYear ==
    (Plotted /\ separate_by_year) =>
        \A r \in Range(Result) :
            LET pairRows == {q \in Range(Result) : q.item = r.item /\ q.year = r.year}
            IN  \E k \in 1..Len(rendered) :
                    LET fig == rendered[k].fig
                        own == {i \in 1..Len(fig.series) :
                                   Range(fig.series[i].rows) = pairRows}
                    IN  /\ Cardinality(own) = 1
                        /\ \A i \in own : \A j \in 1..Len(fig.series) :
                               fig.legend[j] = fig.series[i].label => j = i

\* ---- C5 ----
\* C5: combine_plots renders exactly one figure; otherwise one figure per
\* entry of selected_items, in selection order, each fed only and all of that
\* item's rows; separate_by_year makes the x axis the month with one series
\* per year, and otherwise the year-month label with one series per item.
C5_FiguresByOptions ==
    Plotted =>
        /\ fig_count = Len(rendered)
        /\ combine_plots =>
              /\ Len(rendered) = 1
              /\ {Reshaped(r) : r \in FedRows(rendered[1].fig)} = Range(Result)
        /\ ~combine_plots =>
              /\ Len(rendered) = Len(selected_items)
              /\ \A k \in 1..Len(rendered) :
                    /\ rendered[k].fig.title = selected_items[k]
                    /\ {Reshaped(r) : r \in FedRows(rendered[k].fig)}
                         = RowsOfItem(selected_items[k])
        /\ \A k \in 1..Len(rendered) :
              LET fig == rendered[k].fig
                  fed == FedRows(fig)
                  n == Len(fig.series)
              IN  /\ \A i, j \in 1..n : fig.series[i].label = fig.series[j].label => i = j
                  /\ \A i \in 1..n : fig.series[i].y = selected_column
                  /\ separate_by_year =>
                        /\ fig.xlabel = "month"
                        /\ \A i \in 1..n : fig.series[i].x = "month"
                        /\ {fig.series[i].label : i \in 1..n}
                             = {YearLabel(r.year) : r \in fed}
                        /\ \A i \in 1..n : \A r \in Range(fig.series[i].rows) :
                               YearLabel(r.year) = fig.series[i].label
                  /\ ~separate_by_year =>
                        /\ fig.xlabel = "ym"
                        /\ \A i \in 1..n : fig.series[i].x = "ym_label"
                        /\ {fig.series[i].label : i \in 1..n}
                             = {ItemLabel(r.item) : r \in fed}
                        /\ \A i \in 1..n : \A r \in Range(fig.series[i].rows) :
                               ItemLabel(r.item) = fig.series[i].label

C5_Witness ==
    /\ Plotted
    /\ ~combine_plots
    /\ separate_by_year
    /\ Len(rendered) = 2
    /\ rendered[1].fig.title = <<"B">>

\* ---- C6 ----
\* The three calls happen in the order load_data, process_data, plot_data.
CallOrder ==
    \E n \in 0..3 : calls = SubSeq(<<"load_data", "process_data", "plot_data">>, 1, n)

\* The conditions under which main() reaches the call of plot_data.
PlotCondition ==
    /\ uploaded_file # <<>>
    /\ Len(selected_items) > 0
    /\ selected_column # None
    /\ Len(filtered_data.rows) > 0

NotGreater(a, b) ==
    \/ StrLess(a.item, b.item)
    \/ a.item = b.item /\ StrLess(a.year, b.year)
    \/ a.item = b.item /\ a.year = b.year /\ a.month <= b.month

\* Consecutive result rows ascend by (item, year, month).
SortedByKey == \A i \in 1..(Len(Result) - 1) : NotGreater(Result[i], Result[i + 1])

\* Within an item the year-month codes of consecutive rows do not go back in
\* time: the code is the year times 100 plus the month.
Chronological ==
    \A i \in 1..(Len(Result) - 1) :
        Result[i].item = Result[i + 1].item =>
            SourceRow(Result[i]).ym.n <= SourceRow(Result[i + 1]).ym.n

\* C7 as stated: the result is sorted by (item, year, month) ascending, the
\* month compared as an integer; consequently the rows of each item are in
\* chronological order of their year-month codes.
C7_SortedChronological == Returned => (SortedByKey /\ Chronological)

\* Within an item, codes of the same length are in chronological order.
ChronologicalSameLength ==
    \A i, j \in 1..Len(Result) :
        LET a == SourceRow(Result[i]).ym.n
            b == SourceRow(Result[j]).ym.n
        IN  (i < j /\ Result[i].item = Result[j].item
                   /\ Len(IntToStr(a)) = Len(IntToStr(b))) => a <= b

\* C7 amended: the result is sorted by (item, year, month) ascending, the
\* year compared as text and the month as an integer; consequently the rows
\* of each item whose codes have the same length are in chronological order.
C7_SortedSameLengthChronological == Returned => (SortedByKey /\ ChronologicalSameLength)

C7_Witness ==
    /\ Returned
    /\ Len(Result) = 2
    /\ Result[1].item = Result[2].item
    /\ Result[1].idx = 1 /\ Result[1].month = 2
    /\ Result[2].idx = 0 /\ Result[2].month = 10

\* ---- C8 ----
\* C8 as stated: in the overall-trend mode the x-axis label rebuilt for a row (year
\* text followed by the month padded to two digits) is the row's original
\* year-month token.
C8_LabelRoundTrip ==
    (Plotted /\ ~separate_by_year) =>
        \A k \in 1..Len(rendered) : \A r \in FedRows(rendered[k].fig) :
            r.ym_label = astype_str(SourceRow(r).ym)

\* C8 amended: the rebuilt label is the original token for every row whose
\* token is a 5-digit code YYYMM.
C8_LabelRoundTripYYYMM ==
    (Plotted /\ ~separate_by_year) =>
        \A k \in 1..Len(rendered) : \A r \in FedRows(rendered[k].fig) :
            LET n == SourceRow(r).ym.n
            IN  (n >= 10000 /\ n <= 99999) => r.ym_label = astype_str(SourceRow(r).ym)

C8_Witness ==
    /\ Plotted
    /\ ~separate_by_year
    /\ \E k \in 1..Len(rendered) : \E r \in FedRows(rendered[k].fig) :
          /\ SourceRow(r).ym = IntCell(11402)
          /\ r.ym_label = <<"1", "1", "4", "0", "2">>

\* ---- C9 ----
\* The text after the third character of the cell's text is no decimal integer.
Malformed(cell) == cell.kind \in {"float", "nan"} \/ cell.n < 1000

SelectedRow(r) == InSeq(r.item, selected_items)

\* The sheet with the malformed cells of unselected rows put right.
Repaired ==
    [data EXCEPT !.rows =
        [i \in 1..Len(data.rows) |->
            IF ~SelectedRow(data.rows[i]) /\ Malformed(data.rows[i].ym)
            THEN SetCell(data.rows[i], "ym", IntCell(11402)) ELSE data.rows[i]]]

\* The figures plot_data renders from a frame, in order.
FiguresOf(df) ==
    IF combine_plots
    THEN <<CombinedFigure(df, selected_items, selected_column, separate_by_year)>>
    ELSE [k \in 1..Len(selected_items) |->
             ItemFigure(df, selected_items[k], selected_column, separate_by_year)]

\* C9: process_data raises iff a row of a selected item holds a malformed
\* token, and then no chart is rendered; malformed tokens in rows of
\* unselected items change neither its result nor the charts.
C9_MalformedSelectedOnly ==
    /\ Called("process_data") =>
          /\ pc = "raised" <=>
                \E i \in 1..Len(data.rows) :
                    SelectedRow(data.rows[i]) /\ Malformed(data.rows[i].ym)
          /\ LET res == process_data(Repaired, selected_items, selected_column)
             IN  /\ res.raised = (pc = "raised")
                 /\ res.df = filtered_data
                 /\ Plotted => [k \in 1..Len(rendered) |-> rendered[k].fig]
                                 = FiguresOf(res.df)
    /\ pc = "raised" => (rendered = <<>> /\ fig_count = 0 /\ ~Called("plot_data"))

C9_Witness ==
    /\ pc = "raised"
    /\ Called("process_data")
    /\ \E i, j \in 1..Len(data.rows) :
          /\ SelectedRow(data.rows[i]) /\ data.rows[i].ym = NaNCell
          /\ SelectedRow(data.rows[j]) /\ ~Malformed(data.rows[j].ym)

\* ---- C10 ----
\* How often figure number n was shown.
TimesShown(n) == Cardinality({k \in 1..Len(rendered) : rendered[k].num = n})

\* C10: at most one figure is open at any time; a figure is shown once
\* before it is closed and never again; the previous figure is closed when
\* the next one is opened; none is open when plot_data has returned.
C10_OneFigureAtATime ==
    /\ Cardinality(open_figs) <= 1
    /\ open_figs \subseteq 1..fig_count
    /\ \A n \in 1..fig_count :
          IF n \in open_figs
          THEN TimesShown(n) = (IF pc = "plt_close" THEN 1 ELSE 0)
          ELSE TimesShown(n) = 1
    /\ pc = "plt_figure" => open_figs = {}
    /\ Ended => open_figs = {}

C10_Witness ==
    /\ fig_count = 2
    /\ open_figs = {2}
    /\ pc = "plt_close"
    /\ TimesShown(1) = 1

====
